---- MODULE Spec2Model ----
(***************************************************************************)
(* A model of the slicetricks library (src/slicetricks.go): generic        *)
(* in-place operations on Go slices.                                       *)
(*                                                                         *)
(* A Go slice is modelled as a record [buf, len]: buf is the backing       *)
(* array as seen from the slice's first element (so Len(buf) is cap(a)),   *)
(* len is len(a).  Slots buf[len+1 .. cap] are the spare capacity; they    *)
(* keep whatever was last written there.  Indices in the operators below   *)
(* are Go's 0-based indices; buf itself is a 1-based TLA+ sequence.        *)
(*                                                                         *)
(* The state machine is a caller that owns one slice `a` and calls the     *)
(* library's functions on it, one call per step; between two calls it      *)
(* takes the Continue step (op = "none" means: ready for the next call).   *)
(* A call that panics sets `failed` and ends the run.                      *)
(***************************************************************************)
EXTENDS Integers, Sequences, FiniteSets, TLC

\* Bounds of the model.
MaxCap == 4       \* largest capacity (and length) of the caller's slice
MaxElem == 1      \* elements are 0..MaxElem
MaxIns == 1       \* most elements inserted by one Expand/Extend/InsertMany
MaxSpare == 1     \* most spare slots a reallocating append may add

\* The zero value of the element type (var zero T).
Zero == 0

Elem == 0..MaxElem

VARIABLES
    a,        \* the caller's slice after the last call
    pre,      \* the caller's slice before the last call
    op,       \* name of the last function called ("none" initially)
    args,     \* arguments of the last call
    popped,   \* <<x>> when the last call returned element x, else <<>>
    views,    \* the sub-slices returned by Batches / SlidingWindow
    pushed,   \* <<[s, x, op]>>: the slice before the latest Push/PushFront of x,
              \* kept until the call that directly follows it has returned
    failed    \* TRUE when the last call panicked

vars == <<a, pre, op, args, popped, views, pushed, failed>>

----------------------------------------------------------------------------
\* Go slice primitives

MkSlice(b, n) == [buf |-> b, len |-> n]
Cap(s) == Len(s.buf)
Live(s) == SubSeq(s.buf, 1, s.len)
Zeros(n) == [k \in 1..n |-> Zero]
Min(x, y) == IF x <= y THEN x ELSE y

\* What a call leaves behind: the slice and whether the call panicked.
Ok(s) == [a |-> s, failed |-> FALSE]
Panic(s) == [a |-> s, failed |-> TRUE]

\* copy(dst, src) where dst = buf[d : d+dl] and src = buf[s : s+sl] share
\* one backing array: min(dl, sl) elements move, as by memmove.
CopyBuf(buf, d, dl, s, sl) ==
    LET n == Min(dl, sl) IN
    [k \in 1..Len(buf) |-> IF k > d /\ k <= d + n THEN buf[k - d + s] ELSE buf[k]]

\* copy(dst, src) where src is another array: dst = buf[d : d+dl].
CopyIn(buf, d, dl, src) ==
    LET n == Min(dl, Len(src)) IN
    [k \in 1..Len(buf) |-> IF k > d /\ k <= d + n THEN src[k - d] ELSE buf[k]]

\* buf with slots lo .. hi-1 (0-based) set to the zero value.
ClearRange(buf, lo, hi) ==
    [k \in 1..Len(buf) |-> IF k > lo /\ k <= hi THEN Zero ELSE buf[k]]

\* append(s, es...): in place when the capacity allows, else a fresh array
\* holding the result followed by `extra` zeroed spare slots.
AppendOp(s, es, extra) ==
    IF s.len + Len(es) <= Cap(s)
    THEN MkSlice(CopyIn(s.buf, s.len, Len(es), es), s.len + Len(es))
    ELSE MkSlice(Live(s) \o es \o Zeros(extra), s.len + Len(es))

----------------------------------------------------------------------------
\* Cut, Delete, DeleteUnordered

\* Cut without the loop that zeroes the vacated slots.
CutOpNoClear(s, start, end) ==
    IF start < 0 \/ start > s.len \/ end < 0 \/ end > s.len
    THEN Panic(s)
    ELSE LET b1 == CopyBuf(s.buf, start, s.len - start, end, s.len - end)
             n == s.len - end + start
         IN IF n > Cap(s) THEN Panic(MkSlice(b1, s.len)) ELSE Ok(MkSlice(b1, n))

CutOp(s, start, end) ==
    IF start < 0 \/ start > s.len \/ end < 0 \/ end > s.len
    THEN Panic(s)
    ELSE LET b1 == CopyBuf(s.buf, start, s.len - start, end, s.len - end)
             n == s.len - end + start
             b2 == ClearRange(b1, n, s.len)
         IN IF n > Cap(s) THEN Panic(MkSlice(b2, s.len)) ELSE Ok(MkSlice(b2, n))

\* Delete that shifts from i+2 instead of i+1.
DeleteOpShiftsTooFar(s, i) ==
    IF i < 0 \/ i > s.len \/ i + 1 > s.len
    THEN Panic(s)
    ELSE LET b1 == CopyBuf(s.buf, i, s.len - i, Min(i + 2, s.len), s.len - Min(i + 2, s.len))
             b2 == ClearRange(b1, s.len - 1, s.len)
         IN Ok(MkSlice(b2, s.len - 1))

DeleteOp(s, i) ==
    IF i < 0 \/ i > s.len \/ i + 1 > s.len
    THEN Panic(s)
    ELSE LET b1 == CopyBuf(s.buf, i, s.len - i, i + 1, s.len - i - 1)
             b2 == ClearRange(b1, s.len - 1, s.len)
         IN Ok(MkSlice(b2, s.len - 1))

DeleteUnorderedOp(s, i) ==
    IF i < 0 \/ i >= s.len
    THEN Panic(s)
    ELSE LET b1 == [s.buf EXCEPT ![i + 1] = s.buf[s.len]]
             b2 == ClearRange(b1, s.len - 1, s.len)
         IN Ok(MkSlice(b2, s.len - 1))

----------------------------------------------------------------------------
\* Expand, Extend, Insert, InsertMany

\* Expand that splits the slice after element i instead of before it.
ExpandOpAfter(s, i, n, extra) ==
    IF i < 0 \/ i > Cap(s) \/ n < 0 \/ i > s.len
    THEN Panic(s)
    ELSE LET at == Min(i + 1, s.len)
             tmp == Zeros(n) \o SubSeq(s.buf, at + 1, s.len)
         IN Ok(AppendOp(MkSlice(s.buf, at), tmp, extra))

\* append((*a)[:i], append(make([]T, n), (*a)[i:]...)...)
ExpandOp(s, i, n, extra) ==
    IF i < 0 \/ i > Cap(s) \/ n < 0 \/ i > s.len
    THEN Panic(s)
    ELSE LET tmp == Zeros(n) \o SubSeq(s.buf, i + 1, s.len)
         IN Ok(AppendOp(MkSlice(s.buf, i), tmp, extra))

ExtendOp(s, n, extra) ==
    IF n < 0 THEN Panic(s) ELSE Ok(AppendOp(s, Zeros(n), extra))

InsertOp(s, i, elem, extra) ==
    LET a1 == AppendOp(s, <<Zero>>, extra) IN
    IF i + 1 < 0 \/ i + 1 > a1.len \/ i < 0 \/ i > a1.len
    THEN Panic(a1)
    ELSE LET b1 == CopyBuf(a1.buf, i + 1, a1.len - i - 1, i, a1.len - i)
         IN Ok(MkSlice([b1 EXCEPT ![i + 1] = elem], a1.len))

\* The in-place path of InsertMany (n <= cap(*a)).
InsertManyInPlace(s, i, elems) ==
    LET k == Len(elems)
        n == s.len + k
        a1 == MkSlice(s.buf, n)
    IN IF i + k < 0 \/ i + k > n                \* (*a)[i+len(elems):]
          \/ i < 0 \/ i + k + 1 > Cap(s)        \* (*a)[i:i+len(elems)+1]
       THEN Panic(a1)
       ELSE LET b1 == CopyBuf(s.buf, i + k, n - (i + k), i, k + 1)
                b2 == CopyIn(b1, i, n - i, elems)
            IN Ok(MkSlice(b2, n))

\* The reallocating path of InsertMany.
InsertManyRealloc(s, i, elems) ==
    LET k == Len(elems)
        n == s.len + k
        s2 == Zeros(n)
    IN IF i < 0 \/ i > Cap(s)                   \* (*a)[:i]
          \/ i > n                              \* s2[i:]
          \/ i + k > n                          \* s2[i+len(elems):]
          \/ i > s.len                          \* (*a)[i:]
       THEN Panic(s)
       ELSE LET c1 == CopyIn(s2, 0, n, SubSeq(s.buf, 1, i))
                c2 == CopyIn(c1, i, n - i, elems)
                c3 == CopyIn(c2, i + k, n - i - k, SubSeq(s.buf, i + 1, s.len))
            IN Ok(MkSlice(c3, n))

InsertManyOp(s, i, elems) ==
    IF s.len + Len(elems) <= Cap(s)
    THEN InsertManyInPlace(s, i, elems)
    ELSE InsertManyRealloc(s, i, elems)

----------------------------------------------------------------------------
\* Push, PushFront, Pop, PopFront

PushOp(s, elem, extra) == Ok(AppendOp(s, <<elem>>, extra))

\* PushFront that appends at the end, as Push does.
PushFrontOpAtEnd(s, elem, extra) == Ok(AppendOp(s, <<elem>>, extra))

\* append([]T{elem}, *a...)
PushFrontOp(s, elem, extra) == Ok(AppendOp(MkSlice(<<elem>>, 1), Live(s), extra))

PopOp(s) ==
    IF s.len - 1 < 0
    THEN [a |-> s, failed |-> TRUE, x |-> <<>>]
    ELSE [a |-> MkSlice(s.buf, s.len - 1), failed |-> FALSE, x |-> <<s.buf[s.len]>>]

PopFrontOp(s) ==
    IF 0 >= s.len
    THEN [a |-> s, failed |-> TRUE, x |-> <<>>]
    ELSE [a |-> MkSlice(Tail(s.buf), s.len - 1), failed |-> FALSE, x |-> <<s.buf[1]>>]

----------------------------------------------------------------------------
\* Filter and its variants

Keeps == {"all", "none", "nonzero", "even"}

\* The caller's predicate keep(x), a pure function of the element.
Keep(f, x) ==
    CASE f = "all" -> TRUE
      [] f = "none" -> FALSE
      [] f = "nonzero" -> x # Zero
      [] f = "even" -> x % 2 = 0

\* The compaction loop writing each kept element back to its own position
\* instead of position n.
RECURSIVE FilterLoopNoCompact(_, _, _, _, _)
FilterLoopNoCompact(buf, idx, n, len, f) ==
    IF idx >= len THEN [buf |-> buf, n |-> n]
    ELSE LET x == buf[idx + 1] IN
         IF Keep(f, x)
         THEN FilterLoopNoCompact([buf EXCEPT ![idx + 1] = x], idx + 1, n + 1, len, f)
         ELSE FilterLoopNoCompact(buf, idx + 1, n, len, f)

\* for _, x := range *a { if keep(x) { (*a)[n] = x; n++ } }
\* from 0-based position idx on, with n elements kept so far.
RECURSIVE FilterLoop(_, _, _, _, _)
FilterLoop(buf, idx, n, len, f) ==
    IF idx >= len THEN [buf |-> buf, n |-> n]
    ELSE LET x == buf[idx + 1] IN
         IF Keep(f, x)
         THEN FilterLoop([buf EXCEPT ![n + 1] = x], idx + 1, n + 1, len, f)
         ELSE FilterLoop(buf, idx + 1, n, len, f)

FilterOp(s, f) ==
    LET r == FilterLoop(s.buf, 0, 0, s.len, f)
    IN Ok(MkSlice(ClearRange(r.buf, r.n, s.len), r.n))

FilterNoGCOp(s, f) ==
    LET r == FilterLoop(s.buf, 0, 0, s.len, f)
    IN Ok(MkSlice(r.buf, r.n))

\* b := (*a)[:0]; for _, x := range *a { if keep(x) { b = append(b, x) } }
\* b never outgrows cap(*a), so every append is in place.
RECURSIVE FilterAppendLoop(_, _, _, _)
FilterAppendLoop(b, idx, len, f) ==
    IF idx >= len THEN b
    ELSE LET x == b.buf[idx + 1] IN
         IF Keep(f, x)
         THEN FilterAppendLoop(AppendOp(b, <<x>>, 0), idx + 1, len, f)
         ELSE FilterAppendLoop(b, idx + 1, len, f)

FilterZeroAllocNoGCOp(s, f) ==
    Ok(FilterAppendLoop(MkSlice(s.buf, 0), 0, s.len, f))

FilterZeroAllocOp(s, f) ==
    LET b == FilterAppendLoop(MkSlice(s.buf, 0), 0, s.len, f)
    IN Ok(MkSlice(ClearRange(b.buf, b.len, s.len), b.len))

----------------------------------------------------------------------------
\* Batches and SlidingWindow.  A returned sub-slice is a view [off, len, cap]
\* into the argument's backing array: it starts at 0-based offset off.

View(off, len, cap) == [off |-> off, len |-> len, cap |-> cap]
ViewElems(s, v) == SubSeq(s.buf, v.off + 1, v.off + v.len)

Returned(vs) == [views |-> vs, failed |-> FALSE]
PanicNoViews == [views |-> <<>>, failed |-> TRUE]

\* Go's integer division, which truncates toward zero (y # 0).
GoDiv(x, y) ==
    LET ax == IF x < 0 THEN -x ELSE x
        ay == IF y < 0 THEN -y ELSE y
    IN IF (x < 0) = (y < 0) THEN ax \div ay ELSE -(ax \div ay)

\* The batching loop with the test batchSize <= len(a).
RECURSIVE BatchLoopInclusive(_, _, _, _, _)
BatchLoopInclusive(off, len, cap, batchSize, batches) ==
    IF batchSize <= len
    THEN IF batchSize < 0 \/ batchSize > len \/ batchSize > cap
         THEN PanicNoViews
         ELSE BatchLoopInclusive(off + batchSize, len - batchSize, cap - batchSize, batchSize,
                                 Append(batches, View(off, batchSize, batchSize)))
    ELSE Returned(Append(batches, View(off, len, cap)))

\* for batchSize < len(a) { a, batches = a[batchSize:], append(batches, a[0:batchSize:batchSize]) }
\* batches = append(batches, a)
\* where a is now the view [off, len, cap] of the argument.
RECURSIVE BatchLoop(_, _, _, _, _)
BatchLoop(off, len, cap, batchSize, batches) ==
    IF batchSize < len
    THEN IF batchSize < 0 \/ batchSize > len \/ batchSize > cap
         THEN PanicNoViews
         ELSE BatchLoop(off + batchSize, len - batchSize, cap - batchSize, batchSize,
                        Append(batches, View(off, batchSize, batchSize)))
    ELSE Returned(Append(batches, View(off, len, cap)))

BatchesOp(s, batchSize) ==
    IF s.len = 0 THEN Returned(<<>>)
    ELSE IF batchSize = 0 THEN PanicNoViews                                \* division by zero
    ELSE IF GoDiv(s.len + batchSize - 1, batchSize) < 0 THEN PanicNoViews  \* make: cap out of range
    ELSE BatchLoop(0, s.len, Cap(s), batchSize, <<>>)

\* The window loop with the test j < len(a).
RECURSIVE WindowLoopExclusive(_, _, _, _)
WindowLoopExclusive(s, i, j, r) ==
    IF j < s.len
    THEN IF i < 0 \/ j < i \/ j > Cap(s)
         THEN PanicNoViews
         ELSE WindowLoopExclusive(s, i + 1, j + 1, Append(r, View(i, j - i, Cap(s) - i)))
    ELSE Returned(r)

\* for i, j := 0, size; j <= len(a); i, j = i+1, j+1 { r = append(r, a[i:j]) }
RECURSIVE WindowLoop(_, _, _, _)
WindowLoop(s, i, j, r) ==
    IF j <= s.len
    THEN IF i < 0 \/ j < i \/ j > Cap(s)
         THEN PanicNoViews
         ELSE WindowLoop(s, i + 1, j + 1, Append(r, View(i, j - i, Cap(s) - i)))
    ELSE Returned(r)

SlidingWindowOp(s, size) ==
    IF s.len = 0 THEN Returned(<<>>)
    ELSE IF s.len <= size THEN Returned(<<View(0, s.len, Cap(s))>>)
    ELSE IF s.len - size + 1 < 0 THEN PanicNoViews                         \* make: cap out of range
    ELSE WindowLoop(s, 0, size, <<>>)

----------------------------------------------------------------------------
\* SortAndDeduplicate

Orders == {"ascending", "descending"}

\* The caller's comparator less(i, j), which compares the elements at i and j.
Less(order, x, y) ==
    CASE order = "ascending" -> x < y
      [] order = "descending" -> x > y

\* sort.SliceStable on fewer than 20 elements is an insertion sort:
\* for i := 1; i < n; i++ { for j := i; j > 0 && less(j, j-1); j-- { swap(j, j-1) } }
RECURSIVE SiftDown(_, _, _)
SiftDown(buf, j, order) ==
    IF j > 0 /\ Less(order, buf[j + 1], buf[j])
    THEN SiftDown([buf EXCEPT ![j + 1] = buf[j], ![j] = buf[j + 1]], j - 1, order)
    ELSE buf

RECURSIVE SliceStable(_, _, _, _)
SliceStable(buf, i, n, order) ==
    IF i < n THEN SliceStable(SiftDown(buf, i, order), i + 1, n, order) ELSE buf

\* for i := 1; i < len(*a); i++ { if (*a)[j] == (*a)[i] { continue }; j++; (*a)[j] = (*a)[i] }
RECURSIVE DedupLoop(_, _, _, _)
DedupLoop(buf, i, j, len) ==
    IF i >= len THEN [buf |-> buf, j |-> j]
    ELSE IF buf[j + 1] = buf[i + 1]
         THEN DedupLoop(buf, i + 1, j, len)
         ELSE DedupLoop([buf EXCEPT ![j + 2] = buf[i + 1]], i + 1, j + 1, len)

SortAndDeduplicateOp(s, order) ==
    LET b1 == SliceStable(s.buf, 1, s.len, order)
        r == DedupLoop(b1, 1, 0, s.len)
    IN IF r.j + 1 > Cap(s)                      \* (*a)[:j+1]
       THEN Panic(MkSlice(r.buf, s.len))
       ELSE Ok(MkSlice(r.buf, r.j + 1))

----------------------------------------------------------------------------
\* The caller

Slices ==
    UNION { { MkSlice(b, n) : b \in [1..c -> Elem], n \in 0..c } : c \in 0..MaxCap }

\* Index arguments a caller may pass, valid and invalid.
Idx(s) == -1..(Cap(s) + 1)

\* Counts a caller may pass to Expand / Extend, valid and invalid.
Counts == -1..MaxIns

\* Spare slots a reallocating append may add beyond the needed length.
Spare == 0..MaxSpare

\* Argument lists a caller may pass to InsertMany.
ElemLists == UNION { [1..k -> Elem] : k \in 0..MaxIns }

Args(i, j, es, f) == [i |-> i, j |-> j, elems |-> es, f |-> f]

Init ==
    /\ a \in Slices
    /\ pre = a
    /\ op = "none"
    /\ args = Args(0, 0, <<>>, "")
    /\ popped = <<>>
    /\ views = <<>>
    /\ pushed = <<>>
    /\ failed = FALSE

Cut ==
    /\ op = "none"
    /\ \E start \in Idx(a), end \in Idx(a) :
         LET r == CutOp(a, start, end) IN
         /\ a' = r.a
         /\ failed' = r.failed
         /\ op' = "Cut"
         /\ args' = Args(start, end, <<>>, "")
         /\ popped' = <<>>
         /\ views' = <<>>
         /\ pushed' = <<>>
    /\ pre' = a

Delete ==
    /\ op = "none"
    /\ \E i \in Idx(a) :
         LET r == DeleteOp(a, i) IN
         /\ a' = r.a
         /\ failed' = r.failed
         /\ op' = "Delete"
         /\ args' = Args(i, 0, <<>>, "")
         /\ popped' = <<>>
         /\ views' = <<>>
         /\ pushed' = <<>>
    /\ pre' = a

DeleteUnordered ==
    /\ op = "none"
    /\ \E i \in Idx(a) :
         LET r == DeleteUnorderedOp(a, i) IN
         /\ a' = r.a
         /\ failed' = r.failed
         /\ op' = "DeleteUnordered"
         /\ args' = Args(i, 0, <<>>, "")
         /\ popped' = <<>>
         /\ views' = <<>>
         /\ pushed' = <<>>
    /\ pre' = a

Expand ==
    /\ op = "none"
    /\ \E i \in Idx(a), n \in Counts, extra \in Spare :
         LET r == ExpandOp(a, i, n, extra) IN
         /\ Cap(r.a) <= MaxCap
         /\ a' = r.a
         /\ failed' = r.failed
         /\ op' = "Expand"
         /\ args' = Args(i, n, <<>>, "")
         /\ popped' = <<>>
         /\ views' = <<>>
         /\ pushed' = <<>>
    /\ pre' = a

Extend ==
    /\ op = "none"
    /\ \E n \in Counts, extra \in Spare :
         LET r == ExtendOp(a, n, extra) IN
         /\ Cap(r.a) <= MaxCap
         /\ a' = r.a
         /\ failed' = r.failed
         /\ op' = "Extend"
         /\ args' = Args(0, n, <<>>, "")
         /\ popped' = <<>>
         /\ views' = <<>>
         /\ pushed' = <<>>
    /\ pre' = a

Insert ==
    /\ op = "none"
    /\ \E i \in Idx(a), elem \in Elem, extra \in Spare :
         LET r == InsertOp(a, i, elem, extra) IN
         /\ Cap(r.a) <= MaxCap
         /\ a' = r.a
         /\ failed' = r.failed
         /\ op' = "Insert"
         /\ args' = Args(i, 0, <<elem>>, "")
         /\ popped' = <<>>
         /\ views' = <<>>
         /\ pushed' = <<>>
    /\ pre' = a

InsertMany ==
    /\ op = "none"
    /\ \E i \in Idx(a), elems \in ElemLists :
         LET r == InsertManyOp(a, i, elems) IN
         /\ Cap(r.a) <= MaxCap
         /\ a' = r.a
         /\ failed' = r.failed
         /\ op' = "InsertMany"
         /\ args' = Args(i, 0, elems, "")
         /\ popped' = <<>>
         /\ views' = <<>>
         /\ pushed' = <<>>
    /\ pre' = a

Push ==
    /\ op = "none"
    /\ \E elem \in Elem, extra \in Spare :
         LET r == PushOp(a, elem, extra) IN
         /\ Cap(r.a) <= MaxCap
         /\ a' = r.a
         /\ failed' = r.failed
         /\ op' = "Push"
         /\ args' = Args(0, 0, <<elem>>, "")
         /\ popped' = <<>>
         /\ views' = <<>>
         /\ pushed' = <<[s |-> a, x |-> elem, op |-> "Push"]>>
    /\ pre' = a

PushFront ==
    /\ op = "none"
    /\ \E elem \in Elem, extra \in Spare :
         LET r == PushFrontOp(a, elem, extra) IN
         /\ Cap(r.a) <= MaxCap
         /\ a' = r.a
         /\ failed' = r.failed
         /\ op' = "PushFront"
         /\ args' = Args(0, 0, <<elem>>, "")
         /\ popped' = <<>>
         /\ views' = <<>>
         /\ pushed' = <<[s |-> a, x |-> elem, op |-> "PushFront"]>>
    /\ pre' = a

Pop ==
    /\ op = "none"
    /\ LET r == PopOp(a) IN
         /\ a' = r.a
         /\ failed' = r.failed
         /\ op' = "Pop"
         /\ args' = Args(0, 0, <<>>, "")
         /\ popped' = r.x
         /\ views' = <<>>
         /\ pushed' = pushed
    /\ pre' = a

PopFront ==
    /\ op = "none"
    /\ LET r == PopFrontOp(a) IN
         /\ a' = r.a
         /\ failed' = r.failed
         /\ op' = "PopFront"
         /\ args' = Args(0, 0, <<>>, "")
         /\ popped' = r.x
         /\ views' = <<>>
         /\ pushed' = pushed
    /\ pre' = a

Batches ==
    /\ op = "none"
    /\ \E batchSize \in Idx(a) :
         LET r == BatchesOp(a, batchSize) IN
         /\ a' = a
         /\ failed' = r.failed
         /\ op' = "Batches"
         /\ args' = Args(batchSize, 0, <<>>, "")
         /\ popped' = <<>>
         /\ views' = r.views
         /\ pushed' = <<>>
    /\ pre' = a

SlidingWindow ==
    /\ op = "none"
    /\ \E size \in Idx(a) :
         LET r == SlidingWindowOp(a, size) IN
         /\ a' = a
         /\ failed' = r.failed
         /\ op' = "SlidingWindow"
         /\ args' = Args(size, 0, <<>>, "")
         /\ popped' = <<>>
         /\ views' = r.views
         /\ pushed' = <<>>
    /\ pre' = a

Filter ==
    /\ op = "none"
    /\ \E keep \in Keeps :
         LET r == FilterOp(a, keep) IN
         /\ a' = r.a
         /\ failed' = r.failed
         /\ op' = "Filter"
         /\ args' = Args(0, 0, <<>>, keep)
         /\ popped' = <<>>
         /\ views' = <<>>
         /\ pushed' = <<>>
    /\ pre' = a

FilterNoGC ==
    /\ op = "none"
    /\ \E keep \in Keeps :
         LET r == FilterNoGCOp(a, keep) IN
         /\ a' = r.a
         /\ failed' = r.failed
         /\ op' = "FilterNoGC"
         /\ args' = Args(0, 0, <<>>, keep)
         /\ popped' = <<>>
         /\ views' = <<>>
         /\ pushed' = <<>>
    /\ pre' = a

FilterZeroAlloc ==
    /\ op = "none"
    /\ \E keep \in Keeps :
         LET r == FilterZeroAllocOp(a, keep) IN
         /\ a' = r.a
         /\ failed' = r.failed
         /\ op' = "FilterZeroAlloc"
         /\ args' = Args(0, 0, <<>>, keep)
         /\ popped' = <<>>
         /\ views' = <<>>
         /\ pushed' = <<>>
    /\ pre' = a

FilterZeroAllocNoGC ==
    /\ op = "none"
    /\ \E keep \in Keeps :
         LET r == FilterZeroAllocNoGCOp(a, keep) IN
         /\ a' = r.a
         /\ failed' = r.failed
         /\ op' = "FilterZeroAllocNoGC"
         /\ args' = Args(0, 0, <<>>, keep)
         /\ popped' = <<>>
         /\ views' = <<>>
         /\ pushed' = <<>>
    /\ pre' = a

SortAndDeduplicate ==
    /\ op = "none"
    /\ \E order \in Orders :
         LET r == SortAndDeduplicateOp(a, order) IN
         /\ a' = r.a
         /\ failed' = r.failed
         /\ op' = "SortAndDeduplicate"
         /\ args' = Args(0, 0, <<>>, order)
         /\ popped' = <<>>
         /\ views' = <<>>
         /\ pushed' = <<>>
    /\ pre' = a

\* The caller takes the result of a call that returned and goes on to its
\* next call.  Only a Push/PushFront is remembered into the call after it.
Continue ==
    /\ op # "none"
    /\ ~failed
    /\ pre' = a
    /\ op' = "none"
    /\ args' = Args(0, 0, <<>>, "")
    /\ popped' = <<>>
    /\ views' = <<>>
    /\ pushed' = IF op \in {"Push", "PushFront"} THEN pushed ELSE <<>>
    /\ UNCHANGED <<a, failed>>

Next ==
    \/ Cut
    \/ Delete
    \/ DeleteUnordered
    \/ Expand
    \/ Extend
    \/ Insert
    \/ InsertMany
    \/ Push
    \/ PushFront
    \/ Pop
    \/ PopFront
    \/ Batches
    \/ SlidingWindow
    \/ Filter
    \/ FilterNoGC
    \/ FilterZeroAlloc
    \/ FilterZeroAllocNoGC
    \/ SortAndDeduplicate
    \/ Continue

Spec == Init /\ [][Next]_vars

----------------------------------------------------------------------------
\* Properties

PreLive == Live(pre)
Range(seq) == { seq[k] : k \in 1..Len(seq) }
Max(x, y) == IF x >= y THEN x ELSE y

\* The elements of the views vs of slice s, concatenated in order.
RECURSIVE Flatten(_, _)
Flatten(s, vs) ==
    IF vs = <<>> THEN <<>> ELSE ViewElems(s, Head(vs)) \o Flatten(s, Tail(vs))

\* C1: InsertMany(a, i, elems) with 0 <= i <= len(a) returns normally and
\* leaves a = a[0..i) ++ elems ++ a[i..len), on the in-place path and on the
\* reallocating path alike.
C1_InsertManyPrefixElemsSuffix ==
    (op = "InsertMany" /\ 0 <= args.i /\ args.i <= pre.len)
        => /\ ~failed
           /\ Live(a) = SubSeq(PreLive, 1, args.i) \o args.elems
                            \o SubSeq(PreLive, args.i + 1, pre.len)

C3_SortAndDeduplicate ==
    op = "SortAndDeduplicate"
        => /\ ~failed
           /\ a.len = Cardinality(Range(PreLive))
           /\ Range(Live(a)) = Range(PreLive)
           /\ \A k \in 1..(a.len - 1) : Less(args.f, a.buf[k], a.buf[k + 1])

\* The calls C4 lists as contract violations.
ContractViolation ==
    \/ op \in {"Pop", "PopFront"} /\ pre.len = 0
    \/ op = "Cut" /\ (args.i > args.j \/ args.i < 0 \/ args.j > pre.len)
    \/ op \in {"Delete", "DeleteUnordered"} /\ (args.i < 0 \/ args.i >= pre.len)
    \/ op \in {"Insert", "InsertMany"} /\ (args.i < 0 \/ args.i > pre.len)
    \/ op \in {"Expand", "Extend"} /\ args.j < 0
    \/ op = "Batches" /\ args.i < 1
    \/ op = "SlidingWindow" /\ args.i < 1 /\ pre.len > 0

\* C4: every call that violates a documented precondition fails instead of
\* returning normally.
C4_ContractViolationFails ==
    ContractViolation => failed

C6_CutDeleteResult ==
    /\ (op = "Cut" /\ 0 <= args.i /\ args.i <= args.j /\ args.j <= pre.len)
           => /\ ~failed
              /\ Live(a) = SubSeq(PreLive, 1, args.i) \o SubSeq(PreLive, args.j + 1, pre.len)
              /\ a.len = pre.len - (args.j - args.i)
              /\ (args.i = args.j => Live(a) = PreLive)
    /\ (op = "Delete" /\ 0 <= args.i /\ args.i < pre.len)
           => /\ ~failed
              /\ Live(a) = SubSeq(PreLive, 1, args.i) \o SubSeq(PreLive, args.i + 2, pre.len)
              /\ a.len = pre.len - 1
              /\ Live(a) = Live(CutOp(pre, args.i, args.i + 1).a)

\* A Delete from the middle of a slice whose neighbours differ.
C6_Witness ==
    /\ op = "Delete" /\ ~failed
    /\ 0 < args.i /\ args.i < pre.len - 1
    /\ pre.buf[args.i + 1] # pre.buf[args.i + 2]

\* C7: Batches(s, batchSize) with batchSize >= 1 returns consecutive,
\* non-overlapping batches whose concatenation is s; all but the last have
\* batchSize elements, the last has 1..batchSize, there are
\* ceil(len(s)/batchSize) of them, and none for an empty s.
C7_Batches ==
    (op = "Batches" /\ args.i >= 1)
        => LET n == Len(views) IN
           /\ ~failed
           /\ Flatten(pre, views) = PreLive
           /\ \A k \in 1..n : views[k].off = (k - 1) * args.i
           /\ \A k \in 1..(n - 1) : views[k].len = args.i
           /\ n > 0 => (views[n].len >= 1 /\ views[n].len <= args.i)
           /\ n = (pre.len + args.i - 1) \div args.i
           /\ pre.len = 0 => views = <<>>

\* Batches of a size that does not divide the length: a short last batch.
C7_Witness ==
    /\ op = "Batches" /\ ~failed
    /\ args.i >= 2
    /\ Len(views) >= 2
    /\ views[Len(views)].len < args.i

\* C8: SlidingWindow(s, size) with size >= 1 returns the windows
\* s[i..i+size) for i = 0, 1, ... in order; there are max(1, len(s)-size+1)
\* of them for a non-empty s (the whole of s alone when len(s) <= size) and
\* none for an empty s.
C8_SlidingWindow ==
    (op = "SlidingWindow" /\ args.i >= 1)
        => LET n == Len(views) IN
           /\ ~failed
           /\ n = (IF pre.len = 0 THEN 0 ELSE Max(1, pre.len - args.i + 1))
           /\ \A k \in 1..n :
                /\ views[k].off = k - 1
                /\ ViewElems(pre, views[k])
                       = SubSeq(PreLive, k, Min(k - 1 + args.i, pre.len))
           /\ (pre.len > 0 /\ pre.len <= args.i) => ViewElems(pre, views[1]) = PreLive

\* Several windows of at least two elements each.
C8_Witness ==
    /\ op = "SlidingWindow" /\ ~failed
    /\ args.i >= 2
    /\ Len(views) >= 2

FilterOps == {"Filter", "FilterNoGC", "FilterZeroAlloc", "FilterZeroAllocNoGC"}

\* C9: Filter(s, p) leaves exactly the elements of s that satisfy p, in
\* their original order; FilterNoGC, FilterZeroAlloc and FilterZeroAllocNoGC
\* leave the same live sequence as Filter does on the same input.
C9_Filter ==
    op \in FilterOps
        => LET Kept(x) == Keep(args.f, x) IN
           /\ ~failed
           /\ Live(a) = SelectSeq(PreLive, Kept)
           /\ args.f = "all" => Live(a) = PreLive
           /\ args.f = "none" => a.len = 0
           /\ Live(a) = Live(FilterOp(pre, args.f).a)
           /\ a.len = FilterOp(pre, args.f).a.len

\* A variant of Filter that dropped an element ahead of one it kept.
C9_Witness ==
    /\ op = "FilterZeroAlloc" /\ ~failed
    /\ \E k \in 1..pre.len, m \in 1..pre.len :
         k < m /\ ~Keep(args.f, pre.buf[k]) /\ Keep(args.f, pre.buf[m])

\* C10: Pop directly after Push(s, x) returns x and leaves s's contents and
\* length; PopFront directly after PushFront(s, x) does the same.
C10_PushPopRoundTrip ==
    /\ (op = "Pop" /\ pushed # <<>> /\ pushed[1].op = "Push")
           => /\ ~failed
              /\ popped = <<pushed[1].x>>
              /\ Live(a) = Live(pushed[1].s)
              /\ a.len = pushed[1].s.len
    /\ (op = "PopFront" /\ pushed # <<>> /\ pushed[1].op = "PushFront")
           => /\ ~failed
              /\ popped = <<pushed[1].x>>
              /\ Live(a) = Live(pushed[1].s)
              /\ a.len = pushed[1].s.len

\* A PopFront after a PushFront onto a non-empty slice.
C10_Witness ==
    /\ op = "PopFront" /\ ~failed
    /\ pushed # <<>> /\ pushed[1].op = "PushFront"
    /\ pushed[1].s.len >= 2
    /\ pushed[1].x # pushed[1].s.buf[1]

====
